---- MODULE Spec2Model ----
(***************************************************************************)
(* Verification model of the two programs of the repository:               *)
(*   - the Student Grade Analyzer  (src/lecture_3/main.py), a console menu  *)
(*     loop over an in-memory list of student records;                      *)
(*   - the Book Collection API     (src/lecture_5/book_api/main.py), five   *)
(*     request handlers over one SQLite table.                              *)
(* The two programs do not interact.  SpecTracker runs the first and holds  *)
(* the second still; SpecBooks runs the second and holds the first still.   *)
(*                                                                         *)
(* Text is a sequence of one-character strings.  An optional value is the   *)
(* empty sequence (None) or a one-element sequence (the value).  A Python   *)
(* float mean sum/len is kept as the exact pair <<sum, len>>; pairs are     *)
(* compared by cross-multiplication (the sums here are far below the range  *)
(* in which two different quotients round to one float).                    *)
(***************************************************************************)
EXTENDS Integers, Sequences, FiniteSets, TLC

VARIABLES
    students,       \* lecture_3 main(): the list of {"name", "grades"} records
    pc,             \* lecture_3: the control position of main()
    student_found,  \* lecture_3 add_grades_for_student(): index of the record, 0 = None
    inp,            \* lecture_3: the line input() returned last in this iteration
    out,            \* lecture_3: what this iteration printed
    books,          \* lecture_5: the rows of table "books", keyed by id
    deleted,        \* lecture_5: history, the ids of the rows deleted so far
    req,            \* lecture_5: the request being served
    resp            \* lecture_5: its response, NoResp while none is being served

vars == <<students, pc, student_found, inp, out, books, deleted, req, resp>>
tracker_vars == <<students, pc, student_found, inp, out>>
book_vars == <<books, deleted, req, resp>>

None == <<>>
Some(v) == <<v>>

(***************************************************************************)
(* Bounds of the model.                                                     *)
(***************************************************************************)
\* The most grades held by all students together.
MaxGrades == 3
\* The largest row id the table hands out.
MaxId == 2

(***************************************************************************)
(* str.strip(), str.lower(), int(str)                                       *)
(***************************************************************************)
Whitespace == {" ", "\t"}

RECURSIVE lstrip(_)
lstrip(s) == IF s # <<>> /\ Head(s) \in Whitespace THEN lstrip(Tail(s)) ELSE s

RECURSIVE rstrip(_)
rstrip(s) ==
    IF s # <<>> /\ s[Len(s)] \in Whitespace
    THEN rstrip(SubSeq(s, 1, Len(s) - 1))
    ELSE s

strip(s) == rstrip(lstrip(s))

\* The upper-case letters of the model's alphabet and their lower-case forms.
LowerOf ==
    ("A" :> "a") @@ ("B" :> "b") @@ ("C" :> "c") @@ ("D" :> "d") @@
    ("E" :> "e") @@ ("H" :> "h") @@ ("K" :> "k") @@ ("N" :> "n") @@
    ("O" :> "o") @@ ("U" :> "u")

lower_char(c) == IF c \in DOMAIN LowerOf THEN LowerOf[c] ELSE c

lower(s) == [i \in 1..Len(s) |-> lower_char(s[i])]

DigitOf ==
    ("0" :> 0) @@ ("1" :> 1) @@ ("2" :> 2) @@ ("3" :> 3) @@ ("4" :> 4) @@
    ("5" :> 5) @@ ("6" :> 6) @@ ("7" :> 7) @@ ("8" :> 8) @@ ("9" :> 9)

RECURSIVE digits_value(_, _)
digits_value(s, acc) ==
    IF s = <<>> THEN acc ELSE digits_value(Tail(s), 10 * acc + DigitOf[Head(s)])

\* int(s) over the alphabet of the model (letters, digits, sign, point,
\* whitespace): None for ValueError, else Some(value).  int() itself skips
\* surrounding whitespace and takes one optional sign before the digits.
py_int(s) ==
    LET t == strip(s)
        signed == t # <<>> /\ Head(t) \in {"+", "-"}
        d == IF signed THEN Tail(t) ELSE t
    IN  IF d = <<>> \/ \E i \in 1..Len(d) : d[i] \notin DOMAIN DigitOf
        THEN None
        ELSE IF signed /\ Head(t) = "-"
             THEN Some(0 - digits_value(d, 0))
             ELSE Some(digits_value(d, 0))

(***************************************************************************)
(* Grade Analyzer: what the user may type.                                  *)
(***************************************************************************)
ChoiceInputs ==
    { <<>>, <<" ">>, <<"1">>, <<"2">>, <<"3">>, <<"4">>, <<"5">>, <<" ", "5", " ">>,
      <<"6">>, <<"x">> }

NameInputs ==
    { <<>>, <<" ">>, <<"a">>, <<"A">>, <<" ", "a", " ">>, <<"b">>, <<"c">> }

GradeInputs ==
    { <<>>, <<" ", " ">>,
      <<"d", "o", "n", "e">>, <<"D", "O", "N", "E">>, <<" ", "D", "o", "n", "e">>,
      <<"x">>, <<"5", ".", "5">>, <<"-", "1">>, <<"1", "0", "1">>,
      <<"0">>, <<"1", "0", "0">>, <<" ", "1", "0", "0", " ">>, <<"+", "0">> }

Done == <<"d", "o", "n", "e">>

\* One iteration's output: the function that printed, which message, and for a
\* report or a top performer the values handed to the formatter.
Printed(op, kind) ==
    [op |-> op, kind |-> kind, lines |-> <<>>, stats |-> <<>>, top |-> <<>>]

NoOut == Printed("", "")

RECURSIVE Sum(_)
Sum(s) == IF s = <<>> THEN 0 ELSE Head(s) + Sum(Tail(s))

RECURSIVE TotalGrades(_)
TotalGrades(ss) == IF ss = <<>> THEN 0 ELSE Len(Head(ss).grades) + TotalGrades(Tail(ss))

\* sum(grades) / len(grades) as an exact quotient.
average(grades) == <<Sum(grades), Len(grades)>>

\* a < b, a = b for quotients with positive denominators.
RatLess(a, b) == a[1] * b[2] < b[1] * a[2]
RatEq(a, b) == a[1] * b[2] = b[1] * a[2]

\* find_student comparing the names as typed, without lower().
find_student_exact(ss, name) ==
    LET hits == {i \in 1..Len(ss) : ss[i].name = name}
    IN  IF hits = {} THEN 0 ELSE CHOOSE i \in hits : \A j \in hits : i <= j

\* The first record whose lower-cased name equals the lower-cased name
\* (0 when there is none): the search loops of add_new_student and
\* add_grades_for_student.
find_student(ss, name) ==
    LET hits == {i \in 1..Len(ss) : lower(ss[i].name) = lower(name)}
    IN  IF hits = {} THEN 0 ELSE CHOOSE i \in hits : \A j \in hits : i <= j

(***************************************************************************)
(* Grade Analyzer: main() and the four operations.                          *)
(***************************************************************************)
InitTracker ==
    /\ students = <<>>
    /\ pc = "menu"
    /\ student_found = 0
    /\ inp = None
    /\ out = NoOut

\* main(), lines 27-29: the stripped choice is empty.
choice_empty(c) ==
    /\ pc = "menu"
    /\ strip(c) = <<>>
    /\ inp' = Some(c)
    /\ out' = Printed("main", "choice_empty")
    /\ pc' = "menu_end"
    /\ UNCHANGED <<students, student_found>>

\* main(), lines 41-42: a choice that is none of "1".."5".
choice_invalid(c) ==
    /\ pc = "menu"
    /\ strip(c) # <<>>
    /\ strip(c) \notin {<<"1">>, <<"2">>, <<"3">>, <<"4">>, <<"5">>}
    /\ inp' = Some(c)
    /\ out' = Printed("main", "choice_invalid")
    /\ pc' = "menu_end"
    /\ UNCHANGED <<students, student_found>>

\* main(), lines 38-40: choice "5" prints and breaks.
choice_exit(c) ==
    /\ pc = "menu"
    /\ strip(c) = <<"5">>
    /\ inp' = Some(c)
    /\ out' = Printed("main", "exiting")
    /\ pc' = "exit"
    /\ UNCHANGED <<students, student_found>>

\* Choice "1": add_new_student(students) with the name typed.
add_new_student(c, n) ==
    /\ pc = "menu"
    /\ strip(c) = <<"1">>
    /\ inp' = Some(n)
    /\ pc' = "menu_end"
    /\ UNCHANGED student_found
    /\ LET name == strip(n)
       IN  IF name = <<>>
           THEN /\ out' = Printed("add_new_student", "name_empty")
                /\ UNCHANGED students
           ELSE IF find_student(students, name) # 0
           THEN /\ out' = Printed("add_new_student", "exists")
                /\ UNCHANGED students
           ELSE /\ students' = Append(students, [name |-> name, grades |-> <<>>])
                /\ out' = Printed("add_new_student", "added")

\* Choice "2": add_grades_for_student(students) up to its input loop, lines 82-99.
add_grades_for_student(c, n) ==
    /\ pc = "menu"
    /\ strip(c) = <<"2">>
    /\ inp' = Some(n)
    /\ UNCHANGED students
    /\ LET name == strip(n)
       IN  IF name = <<>>
           THEN /\ out' = Printed("add_grades_for_student", "name_empty")
                /\ pc' = "menu_end"
                /\ UNCHANGED student_found
           ELSE IF find_student(students, name) = 0
           THEN /\ out' = Printed("add_grades_for_student", "not_found")
                /\ pc' = "menu_end"
                /\ UNCHANGED student_found
           ELSE /\ student_found' = find_student(students, name)
                /\ out' = Printed("add_grades_for_student", "adding")
                /\ pc' = "grades"

\* out_of_range without its lower limit.
out_of_range_above_only(grade) == grade > 100

\* The range test of the input loop, line 113.
out_of_range(grade) == grade < 0 \/ grade > 100

\* One pass of the input loop of add_grades_for_student, lines 102-120.
grade_entry(g) ==
    /\ pc = "grades"
    /\ inp' = Some(g)
    /\ LET grade_input == strip(g)
           grade == py_int(grade_input)
       IN  IF grade_input = <<>>
           THEN /\ out' = Printed("add_grades_for_student", "entry_empty")
                /\ pc' = "grades_end"
                /\ UNCHANGED <<students, student_found>>
           ELSE IF lower(grade_input) = Done
           THEN /\ out' = Printed("add_grades_for_student", "done")
                /\ pc' = "menu_end"
                /\ student_found' = 0
                /\ UNCHANGED students
           ELSE IF grade = None
           THEN /\ out' = Printed("add_grades_for_student", "not_a_number")
                /\ pc' = "grades_end"
                /\ UNCHANGED <<students, student_found>>
           ELSE IF out_of_range(grade[1])
           THEN /\ out' = Printed("add_grades_for_student", "out_of_range")
                /\ pc' = "grades_end"
                /\ UNCHANGED <<students, student_found>>
           ELSE /\ TotalGrades(students) < MaxGrades
                /\ students' = [students EXCEPT
                                  ![student_found].grades = Append(@, grade[1])]
                /\ out' = Printed("add_grades_for_student", "grade_added")
                /\ pc' = "grades_end"
                /\ UNCHANGED student_found

\* while True, line 101: the input loop prompts again.
grade_loop ==
    /\ pc = "grades_end"
    /\ pc' = "grades"
    /\ inp' = None
    /\ out' = NoOut
    /\ UNCHANGED <<students, student_found>>

\* while True, lines 15-22: the menu is printed again.
menu_loop ==
    /\ pc = "menu_end"
    /\ pc' = "menu"
    /\ inp' = None
    /\ out' = NoOut
    /\ UNCHANGED <<students, student_found>>

\* input_failure without the try/except of main(): the exception ends the program.
input_failure_uncaught ==
    /\ pc \in {"menu", "grades"}
    /\ inp' = None
    /\ out' = Printed("main", "error")
    /\ pc' = "exit"
    /\ student_found' = 0
    /\ UNCHANGED students

\* input() raises (EOFError on a closed stdin) at the menu prompt, at a name
\* prompt or inside the input loop: main(), lines 44-45, prints and goes on.
input_failure ==
    /\ pc \in {"menu", "grades"}
    /\ inp' = None
    /\ out' = Printed("main", "error")
    /\ pc' = "menu_end"
    /\ student_found' = 0
    /\ UNCHANGED students

\* collect_averages counting a student without grades as an average of 0.
RECURSIVE collect_averages_all(_)
collect_averages_all(ss) ==
    IF ss = <<>> THEN <<>>
    ELSE IF Head(ss).grades = <<>> THEN <<<<0, 1>>>> \o collect_averages_all(Tail(ss))
         ELSE <<average(Head(ss).grades)>> \o collect_averages_all(Tail(ss))

\* The averages list show_report builds, lines 136-147: one entry per student
\* with grades, in list order.
RECURSIVE collect_averages(_)
collect_averages(ss) ==
    IF ss = <<>> THEN <<>>
    ELSE IF Head(ss).grades = <<>> THEN collect_averages(Tail(ss))
         ELSE <<average(Head(ss).grades)>> \o collect_averages(Tail(ss))

\* max(averages), min(averages): the first greatest, the first least.
RECURSIVE max_from(_, _)
max_from(best, rest) ==
    IF rest = <<>> THEN best
    ELSE max_from(IF RatLess(best, Head(rest)) THEN Head(rest) ELSE best, Tail(rest))

RECURSIVE min_from(_, _)
min_from(best, rest) ==
    IF rest = <<>> THEN best
    ELSE min_from(IF RatLess(Head(rest), best) THEN Head(rest) ELSE best, Tail(rest))

\* sum(averages), starting from 0.
RECURSIVE rat_sum(_, _)
rat_sum(acc, rest) ==
    IF rest = <<>> THEN acc
    ELSE rat_sum(<<acc[1] * Head(rest)[2] + Head(rest)[1] * acc[2],
                   acc[2] * Head(rest)[2]>>, Tail(rest))

\* The per-student lines of the report, lines 138-151.
report_lines(ss) ==
    [i \in 1..Len(ss) |->
        [name |-> ss[i].name,
         average |-> IF ss[i].grades = <<>> THEN None
                     ELSE Some(average(ss[i].grades))]]

\* The summary statistics of the report, lines 154-164.
report_stats(averages) ==
    IF averages # <<>>
    THEN LET total == rat_sum(<<0, 1>>, averages)
         IN  Some([max_avg |-> max_from(Head(averages), Tail(averages)),
                   min_avg |-> min_from(Head(averages), Tail(averages)),
                   overall_avg |-> <<total[1], total[2] * Len(averages)>>])
    ELSE None

\* Choice "3": show_report(students).
show_report(c) ==
    /\ pc = "menu"
    /\ strip(c) = <<"3">>
    /\ inp' = Some(c)
    /\ pc' = "menu_end"
    /\ UNCHANGED <<students, student_found>>
    /\ IF students = <<>>
       THEN out' = Printed("show_report", "no_students")
       ELSE LET stats == report_stats(collect_averages(students))
            IN  out' = [Printed("show_report",
                                IF stats # None THEN "report" ELSE "report_no_grades")
                          EXCEPT !.lines = report_lines(students), !.stats = stats]

\* max_by_average keeping the last of several greatest records.
RECURSIVE max_by_average_last(_, _)
max_by_average_last(best, rest) ==
    IF rest = <<>> THEN best
    ELSE max_by_average_last(
            IF RatLess(average(Head(rest).grades), average(best.grades))
            THEN best ELSE Head(rest),
            Tail(rest))

\* max(students_with_grades, key=average), lines 183-184: the first record
\* whose key no later record exceeds.
RECURSIVE max_by_average(_, _)
max_by_average(best, rest) ==
    IF rest = <<>> THEN best
    ELSE max_by_average(
            IF RatLess(average(best.grades), average(Head(rest).grades))
            THEN Head(rest) ELSE best,
            Tail(rest))

\* What find_top_performer reports for a list of students, lines 175-189.
top_performer(ss) ==
    LET students_with_grades == SelectSeq(ss, LAMBDA s : s.grades # <<>>)
    IN  IF students_with_grades = <<>>
        THEN None
        ELSE LET top_student == max_by_average(Head(students_with_grades),
                                               Tail(students_with_grades))
             IN  Some([name |-> top_student.name,
                       average |-> average(top_student.grades)])

\* Choice "4": find_top_performer(students).
find_top_performer(c) ==
    /\ pc = "menu"
    /\ strip(c) = <<"4">>
    /\ inp' = Some(c)
    /\ pc' = "menu_end"
    /\ UNCHANGED <<students, student_found>>
    /\ LET top == top_performer(students)
       IN  out' = [Printed("find_top_performer",
                           IF top = None THEN "no_grades" ELSE "top")
                     EXCEPT !.top = top]

(***************************************************************************)
(* Book Collection API: requests.  A field of a JSON body or of a query     *)
(* string is absent, null (a body only) or carries a value.                 *)
(***************************************************************************)
AbsentText == [kind |-> "absent", val |-> <<>>]
NullText == [kind |-> "null", val |-> <<>>]
Text(s) == [kind |-> "value", val |-> s]
AbsentInt == [kind |-> "absent", val |-> 0]
NullInt == [kind |-> "null", val |-> 0]
Number(n) == [kind |-> "value", val |-> n]

Empty == <<>>
Du == <<"D", "u">>

NoFields == [title |-> AbsentText, author |-> AbsentText, year |-> AbsentInt]
NoReq == [op |-> "", id |-> 0, fields |-> NoFields]
NoResp == [status |-> 0, books |-> {}, detail |-> ""]

CreateBodies ==
    [title : {AbsentText, NullText, Text(Empty), Text(Du)},
     author : {AbsentText, Text(<<"H">>)},
     year : {AbsentInt, Number(1965)}]

UpdateBodies ==
    [title : {AbsentText, NullText, Text(Empty), Text(Du)},
     author : {AbsentText, Text(<<"K">>)},
     year : {AbsentInt, NullInt, Number(1965)}]

SearchQueries ==
    [title : {AbsentText, Text(Empty), Text(<<"u">>), Text(<<"d">>),
              Text(<<"%">>)},
     author : {AbsentText, Text(<<"h">>)},
     year : {AbsentInt, Number(0), Number(1965)}]

\* The ids a request may name: every id the table can hold and one it cannot.
RequestIds == 1..(MaxId + 1)

\* Optional[...] = None of BookCreate, BookUpdate and the Query parameters:
\* an absent field and a null field both read as None.
optional(f) == IF f.kind = "value" THEN Some(f.val) ELSE None

\* BookCreate: title and author are `str`, required and not null.
BookCreate_valid(fields) ==
    /\ fields.title.kind = "value"
    /\ fields.author.kind = "value"

\* Python truth of an Optional[str] and of an Optional[int].
truthy_text(o) == o # None /\ o[1] # <<>>
truthy_int(o) == o # None /\ o[1] # 0

\* SQLite's LIKE: % is any run of characters, _ any one character, and
\* letters match without regard to case (the default of the engine the
\* service opens, line 55-61).
RECURSIVE like(_, _)
like(p, t) ==
    IF p = <<>> THEN t = <<>>
    ELSE IF Head(p) = "%"
         THEN like(Tail(p), t) \/ (t # <<>> /\ like(p, Tail(t)))
         ELSE /\ t # <<>>
              /\ Head(p) = "_" \/ lower_char(Head(p)) = lower_char(Head(t))
              /\ like(Tail(p), Tail(t))

\* Column.contains(other): column LIKE '%' || other || '%'.
contains(column, other) == like(<<"%">> \o other \o <<"%">>, column)

\* The id SQLite gives a new row of a table whose id column is a plain
\* INTEGER PRIMARY KEY (line 80, no AUTOINCREMENT): one more than the largest
\* id in the table, 1 for an empty table.
next_id(table) ==
    IF DOMAIN table = {} THEN 1
    ELSE 1 + CHOOSE i \in DOMAIN table : \A j \in DOMAIN table : j <= i

\* BookResponse of the row with the id.
BookResponse(table, id) ==
    [id |-> id, title |-> table[id].title, author |-> table[id].author,
     year |-> table[id].year]

\* Remove deleting every row from the id on.
Remove_from(table, id) == [i \in {j \in DOMAIN table : j < id} |-> table[i]]

\* db.delete(db_book); db.commit(): the table without the row.
Remove(table, id) == [i \in DOMAIN table \ {id} |-> table[i]]

InitBooks ==
    /\ books = <<>>
    /\ deleted = {}
    /\ req = NoReq
    /\ resp = NoResp

\* POST /books/
create_book(fields) ==
    /\ resp = NoResp
    /\ req' = [op |-> "create", id |-> 0, fields |-> fields]
    /\ UNCHANGED deleted
    /\ IF ~BookCreate_valid(fields)
       THEN /\ resp' = [status |-> 422, books |-> {}, detail |-> "validation error"]
            /\ UNCHANGED books
       ELSE LET id == next_id(books)
                db_book == [title |-> fields.title.val,
                            author |-> fields.author.val,
                            year |-> optional(fields.year)]
            IN  /\ id <= MaxId
                /\ books' = (id :> db_book) @@ books
                /\ resp' = [status |-> 201,
                            books |-> {BookResponse(books', id)},
                            detail |-> ""]

\* GET /books/
get_all_books ==
    /\ resp = NoResp
    /\ req' = [op |-> "list", id |-> 0, fields |-> NoFields]
    /\ resp' = [status |-> 200,
                books |-> {BookResponse(books, i) : i \in DOMAIN books},
                detail |-> ""]
    /\ UNCHANGED <<books, deleted>>

\* The rows the query of search_books selects, lines 172-183.
search_result(table, fields) ==
    LET title == optional(fields.title)
        author == optional(fields.author)
        year == optional(fields.year)
    IN  {i \in DOMAIN table :
            /\ truthy_text(title) => contains(table[i].title, title[1])
            /\ truthy_text(author) => contains(table[i].author, author[1])
            /\ truthy_int(year) => table[i].year = Some(year[1])}

\* GET /books/search/
search_books(fields) ==
    /\ resp = NoResp
    /\ req' = [op |-> "search", id |-> 0, fields |-> fields]
    /\ resp' = [status |-> 200,
                books |-> {BookResponse(books, i) : i \in search_result(books, fields)},
                detail |-> ""]
    /\ UNCHANGED <<books, deleted>>

\* updated_row testing the truth of each field instead of `is not None`.
updated_row_truthy(db_book, fields) ==
    LET title == optional(fields.title)
        author == optional(fields.author)
        year == optional(fields.year)
    IN  [title |-> IF truthy_text(title) THEN title[1] ELSE db_book.title,
         author |-> IF truthy_text(author) THEN author[1] ELSE db_book.author,
         year |-> IF truthy_int(year) THEN year ELSE db_book.year]

\* The row update_book leaves in place of db_book, lines 211-216.
updated_row(db_book, fields) ==
    LET title == optional(fields.title)
        author == optional(fields.author)
        year == optional(fields.year)
    IN  [title |-> IF title # None THEN title[1] ELSE db_book.title,
         author |-> IF author # None THEN author[1] ELSE db_book.author,
         year |-> IF year # None THEN year ELSE db_book.year]

\* PUT /books/{book_id}
update_book(book_id, fields) ==
    /\ resp = NoResp
    /\ req' = [op |-> "update", id |-> book_id, fields |-> fields]
    /\ UNCHANGED deleted
    /\ IF book_id \notin DOMAIN books
       THEN /\ resp' = [status |-> 404, books |-> {}, detail |-> "Book not found"]
            /\ UNCHANGED books
       ELSE /\ books' = [books EXCEPT ![book_id] = updated_row(@, fields)]
            /\ resp' = [status |-> 200,
                        books |-> {BookResponse(books', book_id)},
                        detail |-> ""]

\* DELETE /books/{book_id}
delete_book(book_id) ==
    /\ resp = NoResp
    /\ req' = [op |-> "delete", id |-> book_id, fields |-> NoFields]
    /\ IF book_id \notin DOMAIN books
       THEN /\ resp' = [status |-> 404, books |-> {}, detail |-> "Book not found"]
            /\ UNCHANGED <<books, deleted>>
       ELSE /\ books' = Remove(books, book_id)
            /\ deleted' = deleted \cup {book_id}
            /\ resp' = [status |-> 200, books |-> {},
                        detail |-> "Book deleted successfully"]

\* GET /
read_root ==
    /\ resp = NoResp
    /\ req' = [op |-> "root", id |-> 0, fields |-> NoFields]
    /\ resp' = [status |-> 200, books |-> {},
                detail |-> "Welcome to Book Collection API"]
    /\ UNCHANGED <<books, deleted>>

\* get_db(), lines 107-108: the response is sent and the session closed; the
\* service waits for the next request.
get_db_close ==
    /\ resp # NoResp
    /\ req' = NoReq
    /\ resp' = NoResp
    /\ UNCHANGED <<books, deleted>>

TrackerIdle == UNCHANGED tracker_vars

NextBooks ==
    \/ \E f \in CreateBodies : create_book(f) /\ TrackerIdle
    \/ get_all_books /\ TrackerIdle
    \/ \E f \in SearchQueries : search_books(f) /\ TrackerIdle
    \/ \E i \in RequestIds, f \in UpdateBodies : update_book(i, f) /\ TrackerIdle
    \/ \E i \in RequestIds : delete_book(i) /\ TrackerIdle
    \/ read_root /\ TrackerIdle
    \/ get_db_close /\ TrackerIdle

Init == InitTracker /\ InitBooks

SpecBooks == Init /\ [][NextBooks]_vars

BooksIdle == UNCHANGED book_vars

NextTracker ==
    \/ \E c \in ChoiceInputs : choice_empty(c) /\ BooksIdle
    \/ \E c \in ChoiceInputs : choice_invalid(c) /\ BooksIdle
    \/ \E c \in ChoiceInputs : choice_exit(c) /\ BooksIdle
    \/ \E c \in ChoiceInputs, n \in NameInputs : add_new_student(c, n) /\ BooksIdle
    \/ \E c \in ChoiceInputs, n \in NameInputs :
          add_grades_for_student(c, n) /\ BooksIdle
    \/ \E g \in GradeInputs : grade_entry(g) /\ BooksIdle
    \/ \E c \in ChoiceInputs : show_report(c) /\ BooksIdle
    \/ \E c \in ChoiceInputs : find_top_performer(c) /\ BooksIdle
    \/ grade_loop /\ BooksIdle
    \/ menu_loop /\ BooksIdle
    \/ input_failure /\ BooksIdle

SpecTracker == Init /\ [][NextTracker]_vars

(***************************************************************************)
(* Grade Analyzer: the claims.                                              *)
(***************************************************************************)
Indices == 1..Len(students)
WithGrades == {i \in Indices : students[i].grades # <<>>}
Mean(i) == <<Sum(students[i].grades), Len(students[i].grades)>>

\* No two student records have names that are equal ignoring case.
NamesUnique ==
    \A i, j \in Indices :
        i # j => lower(students[i].name) # lower(students[j].name)

\* What add_new_student does with the name it read.
AddStudentStep ==
    (pc = "menu" /\ out'.op = "add_new_student" /\ inp' # None) =>
        LET name == strip(inp'[1])
        IN  IF \/ name = <<>>
               \/ \E i \in Indices : lower(students[i].name) = lower(name)
            THEN students' = students
            ELSE students' = Append(students, [name |-> name, grades |-> <<>>])

\* C1: no two student records ever have names that are equal ignoring case;
\* add_new_student with a name that is empty after trimming, or that matches
\* an existing name ignoring case, leaves the students unchanged, and
\* otherwise appends exactly one record with that name and no grades.
C1_UniqueNames == []NamesUnique /\ [][AddStudentStep]_vars

\* add_new_student has refused a name that differs from the stored one only
\* in case, and has stored a second name before.
C1_Witness ==
    /\ pc = "menu_end"
    /\ out.kind = "exists"
    /\ Len(students) >= 2
    /\ \E i \in Indices :
          /\ students[i].name # strip(inp[1])
          /\ lower(students[i].name) = lower(strip(inp[1]))

\* Every stored grade is an integer in [0, 100].
GradesInRange ==
    \A i \in Indices : \A k \in 1..Len(students[i].grades) :
        students[i].grades[k] \in 0..100

\* The integer a trimmed entry writes in decimal (an optional sign, then
\* digits), as a set: empty when the entry is no integer.
EntryValue(e) ==
    LET signed == e # <<>> /\ e[1] \in {"+", "-"}
        d == IF signed THEN SubSeq(e, 2, Len(e)) ELSE e
        n == Len(d)
    IN  IF n = 0 \/ \E i \in 1..n : d[i] \notin DOMAIN DigitOf
        THEN {}
        ELSE LET magnitude == Sum([i \in 1..n |-> DigitOf[d[i]] * 10^(n - i)])
             IN  {IF signed /\ e[1] = "-" THEN 0 - magnitude ELSE magnitude}

\* What one pass of the add-grades input loop does with the entry it read.
GradeEntryStep ==
    (pc = "grades" /\ inp' # None) =>
        LET e == strip(inp'[1])
            v == EntryValue(e)
        IN  IF lower(e) = Done
            THEN students' = students /\ pc' = "menu_end"
            ELSE /\ pc' = "grades_end"
                 /\ IF v # {} /\ v \subseteq 0..100
                    THEN \E g \in v :
                            students' = [students EXCEPT
                                ![student_found].grades = Append(@, g)]
                    ELSE students' = students

\* C2: every stored grade is an integer in [0, 100]; in the add-grades input
\* loop an entry that is empty, not a number or outside [0, 100] appends
\* nothing and does not end the loop, an integer entry in [0, 100] is appended
\* at the end of the selected student's grades, and of all entries only "done"
\* (in any case) ends the loop.
C2_GradesInRange == []GradesInRange /\ [][GradeEntryStep]_vars

\* The loop has rejected an entry outside the range while the selected
\* student already holds grades 0 and 100.
C2_Witness ==
    /\ pc = "grades_end"
    /\ out.kind = "out_of_range"
    /\ student_found # 0
    /\ \E k, l \in 1..Len(students[student_found].grades) :
          /\ students[student_found].grades[k] = 0
          /\ students[student_found].grades[l] = 100

\* C8: find_top_performer considers only the students with grades; with none
\* it reports the no-students message, otherwise it selects the student with
\* the highest mean grade, the first in the collection when several share that
\* mean; the students are unchanged.
C8_TopPerformer ==
    [][(pc = "menu" /\ out'.op = "find_top_performer") =>
         /\ students' = students
         /\ IF WithGrades = {}
            THEN out'.kind = "no_grades" /\ out'.top = None
            ELSE /\ out'.kind = "top"
                 /\ \E i \in WithGrades :
                       /\ out'.top = Some([name |-> students[i].name,
                                           average |-> Mean(i)])
                       /\ \A j \in WithGrades : ~RatLess(Mean(i), Mean(j))
                       /\ \A j \in WithGrades : j < i => RatLess(Mean(j), Mean(i))]_vars

\* Three students have grades, the second and third share the highest mean,
\* above the first's, and the second has been reported.
C8_Witness ==
    /\ pc = "menu_end"
    /\ out.kind = "top"
    /\ Len(students) = 3
    /\ WithGrades = {1, 2, 3}
    /\ RatLess(Mean(1), Mean(2))
    /\ RatEq(Mean(2), Mean(3))
    /\ out.top[1].name = students[2].name

\* The product of the grade counts of the students with grades, and the sum
\* of their means scaled by it.
RECURSIVE CountProduct(_)
CountProduct(ss) ==
    IF ss = <<>> THEN 1
    ELSE (IF Head(ss).grades = <<>> THEN 1 ELSE Len(Head(ss).grades))
         * CountProduct(Tail(ss))

RECURSIVE ScaledMeans(_, _)
ScaledMeans(ss, scale) ==
    IF ss = <<>> THEN 0
    ELSE (IF Head(ss).grades = <<>> THEN 0
          ELSE Sum(Head(ss).grades) * (scale \div Len(Head(ss).grades)))
         + ScaledMeans(Tail(ss), scale)

\* C9: show_report reports N/A for exactly the students without grades and
\* never divides by zero; the max, min and overall mean are those of the means
\* of exactly the students with grades; with no graded student it prints a
\* message of its own and no statistics.
C9_Report ==
    [][(pc = "menu" /\ out'.op = "show_report") =>
         /\ students' = students
         /\ out'.kind # "error"
         /\ IF students = <<>>
            THEN out'.kind = "no_students" /\ out'.stats = None
            ELSE /\ Len(out'.lines) = Len(students)
                 /\ \A i \in Indices :
                       /\ out'.lines[i].name = students[i].name
                       /\ (out'.lines[i].average = None) <=> (i \notin WithGrades)
                       /\ i \in WithGrades =>
                             /\ out'.lines[i].average[1][2] > 0
                             /\ RatEq(out'.lines[i].average[1], Mean(i))
                 /\ IF WithGrades = {}
                    THEN out'.kind = "report_no_grades" /\ out'.stats = None
                    ELSE /\ out'.kind = "report"
                         /\ LET st == out'.stats[1]
                                scale == CountProduct(students)
                            IN  /\ \E i \in WithGrades : RatEq(st.max_avg, Mean(i))
                                /\ \A i \in WithGrades : ~RatLess(st.max_avg, Mean(i))
                                /\ \E i \in WithGrades : RatEq(st.min_avg, Mean(i))
                                /\ \A i \in WithGrades : ~RatLess(Mean(i), st.min_avg)
                                /\ st.overall_avg[2] > 0
                                /\ st.overall_avg[1] * scale * Cardinality(WithGrades)
                                     = st.overall_avg[2] * ScaledMeans(students, scale)]_vars

\* A report over three students: one without grades, two with different means.
C9_Witness ==
    /\ pc = "menu_end"
    /\ out.kind = "report"
    /\ Len(students) = 3
    /\ Cardinality(WithGrades) = 2
    /\ \E i, j \in WithGrades : RatLess(Mean(i), Mean(j))
    /\ \E i \in Indices : out.lines[i].average = None

\* How control moves, and how the students may change, in one step.
MenuStep ==
    /\ (pc' = "exit" /\ pc # "exit") =>
          /\ pc = "menu"
          /\ out'.kind = "exiting"
          /\ inp' # None /\ strip(inp'[1]) = <<"5">>
    /\ (pc = "menu" /\ pc' # "exit") => pc' \in {"menu", "menu_end", "grades"}
    /\ pc = "grades" => pc' \in {"grades", "grades_end", "menu_end"}
    /\ pc = "grades_end" => pc' \in {"grades_end", "grades"}
    /\ pc = "menu_end" => pc' \in {"menu_end", "menu"}
    /\ \/ students' = students
       \/ /\ out'.op = "add_new_student"
          /\ \E n \in NameInputs :
                students' = Append(students, [name |-> strip(n), grades |-> <<>>])
       \/ /\ out'.op = "add_grades_for_student"
          /\ \E i \in Indices, g \in 0..100 :
                students' = [students EXCEPT ![i].grades = Append(@, g)]

\* C10: the menu loop ends only when choice "5" is entered at the menu; after
\* every other input, and after a failure raised inside an operation, control
\* comes back to the menu with the students unchanged or changed as that
\* operation specifies, and "5" at the menu then ends the program.
C10_MenuLoop ==
    /\ [][MenuStep]_vars
    /\ [](pc # "exit" => ENABLED NextTracker)
    /\ [](pc = "menu" => ENABLED choice_exit(<<"5">>))

\* The program has ended on the choice " 5 " after students and a grade
\* were added.
C10_Witness ==
    /\ pc = "exit"
    /\ inp = Some(<<" ", "5", " ">>)
    /\ Len(students) >= 2
    /\ TotalGrades(students) >= 1

(***************************************************************************)
(* Book Collection API: the claims.                                         *)
(***************************************************************************)
Ids == DOMAIN books

\* An update of a row that exists is being served in the next state.
UpdateOfPresent == resp = NoResp /\ req'.op = "update" /\ req'.id \in Ids

\* What an update touches besides the named row's fields: nothing.
UpdateFrame ==
    /\ DOMAIN books' = Ids
    /\ \A i \in Ids \ {req'.id} : books'[i] = books[i]
    /\ resp'.status = 200
    /\ resp'.books = {BookResponse(books', req'.id)}

C4_NotFound ==
    [][(resp = NoResp /\ req'.op \in {"update", "delete"}) =>
         IF req'.id \notin Ids
         THEN resp'.status = 404 /\ books' = books
         ELSE req'.op = "delete" =>
                /\ resp'.status = 200
                /\ DOMAIN books' = Ids \ {req'.id}
                /\ \A i \in DOMAIN books' : books'[i] = books[i]]_vars

\* An update of an id deleted before has been answered 404 while the table
\* holds another row.
C4_Witness ==
    /\ req.op = "update"
    /\ resp.status = 404
    /\ req.id \in deleted
    /\ Ids # {}

\* C5: an id is never used again after its row was deleted: no id deleted so
\* far is in the table, so List all omits it and every later update or delete
\* of it answers 404.
C5_NeverReused == \A i \in deleted : i \notin Ids

\* p is a run of consecutive characters of t, case and all.
Substring(p, t) ==
    \E k \in 0..(Len(t) - Len(p)) : SubSeq(t, k + 1, k + Len(p)) = p

\* C6: a search answers exactly the rows that satisfy every filter supplied:
\* a title or author filter as a case-sensitive substring of the field, a year
\* filter (0 too) as equality with the row's year.
C6_SearchExact ==
    req.op = "search" =>
        resp.books =
            {BookResponse(books, i) : i \in
                {j \in Ids :
                    /\ req.fields.title.kind = "value" =>
                          Substring(req.fields.title.val, books[j].title)
                    /\ req.fields.author.kind = "value" =>
                          Substring(req.fields.author.val, books[j].author)
                    /\ req.fields.year.kind = "value" =>
                          books[j].year = Some(req.fields.year.val)}}

\* C7: every row of the table has a title and an author that are not empty.
C7_NonEmpty ==
    \A i \in Ids : books[i].title # Empty /\ books[i].author # Empty

====
